---- MODULE Spec2Model ----
(***************************************************************************)
(* MarineDetect backend: the video pipeline (utils/marine.py,              *)
(* predict_on_video, reached through POST /predict/video) and the          *)
(* range-aware media server (app/main.py, GET /results/{filename}).        *)
(*                                                                         *)
(* Spec / FairSpec : one run of predict_video -> predict_on_video.         *)
(* ServeSpec       : one GET /results/{filename} request and its stream.   *)
(***************************************************************************)
EXTENDS Integers, Sequences, FiniteSets, TLC

\* ------------------------------------------------------------- bounds
\* Longest input video, in frames.
MaxFrames == 3
\* Most model files (*.pt) found in the models directory.
MaxModels == 4

\* ---------------------------------------------------------- constants
\* main.py:64, max_frames: int = 100
DefaultMaxFrames == 100
\* main.py:71, confs_threshold = [0.5, 0.5, 0.5], in hundredths
HalfConf == 50

VARIABLES
    \* ---- predict_on_video
    pc,                 \* position in predict_on_video
    openable,           \* input: cv2.VideoCapture(input_video_path) opens
    total_frames,       \* input: number of frames cap.read() can deliver
    models,             \* number of loaded models, models[1..models]
    confs_threshold,    \* sequence of thresholds
    max_frames,         \* None (<<>>) or <<m>>
    cap,                \* "none" | "closed" | "open" | "released"
    out,                \* "none" | "open" | "released"
    nreads,             \* number of cap.read() calls made
    frame,              \* index of the frame last read, 0 before the first
    i,                  \* enumerate(models) index, 1-based
    combined_results,   \* list of results of the current frame
    written,            \* frames given to out.write, in order
    processed_frames,
    invoked,            \* history: <<frame, model, conf>> of every model(...) call
    dropped,            \* history: [frame, cause, model] of every except branch
    \* ---- get_result_video
    spc,                \* "request" | "ready" | "stream" | "closed"
    exists,             \* input: os.path.exists(file_path)
    disk_size,          \* size of the file on disk now
    range_header,       \* input: the Range header, a sequence of characters
    status,             \* 0 before the response, then the status code
    headers,            \* response headers
    file_size, range_start, range_end, chunk_size,
    started,            \* range_stream has been started
    fpos,               \* position of f in range_stream
    remaining,
    chunks,             \* yielded chunks, each <<offset, length>> of the file
    disconnected,       \* history: the client went away mid-stream
    modified            \* history: the file changed after os.path.getsize

videoVars == <<pc, openable, total_frames, models, confs_threshold, max_frames,
               cap, out, nreads, frame, i, combined_results, written,
               processed_frames, invoked, dropped>>
serveVars == <<spc, exists, disk_size, range_header, status, headers, file_size,
               range_start, range_end, chunk_size, started, fpos, remaining,
               chunks, disconnected, modified>>
vars == <<videoVars, serveVars>>

Min(a, b) == IF a <= b THEN a ELSE b

\* ====================================================================
\*                       utils/marine.py
\* ====================================================================

\* Python None and an int argument, for max_frames.
None == <<>>
Some(m) == <<m>>

\* Truth value of an Optional[int]: None and 0 are false, any other int is true.
Truthy(mf) == mf # None /\ mf[1] # 0

\* marine.py:222 with '>' for '>='.
LimitReachedStrict(mf, processed) == Truthy(mf) /\ processed > mf[1]

\* marine.py:222, if max_frames and processed_frames >= max_frames
LimitReached(mf, processed) == Truthy(mf) /\ processed >= mf[1]

\* The list of the previous frame kept instead of a fresh one.
StaleResults == combined_results

\* marine.py:201, combined_results = []
FreshResults == <<>>

\* The except branch leaving the loop (break for continue).
PredictErrorBreaks == "release"

\* marine.py:207-209, except Exception: print; continue
AfterPredictError == "loop"

\* The exception of the annotation leaving predict_on_video uncaught.
AnnotateErrorPropagates == "done"

\* marine.py:215-217, except Exception: print; continue
AfterAnnotateError == "loop"

\* marine.py:204, model(frame, conf=...): the list of one Results object that
\* a YOLO model returns for one image.
ModelCall(model, img, conf) == <<[frame |-> img, model |-> model, conf |-> conf]>>

\* marine.py:88, result.plot(img=combined_image): the boxes of result drawn
\* onto the image it is given.
Plot(img, result) == [img EXCEPT !.boxes = Append(@, result)]

\* marine.py:71-90
RECURSIVE combine_results(_, _)
combine_results(original_image, results_list) ==
    IF results_list = <<>>
    THEN original_image
    ELSE combine_results(Plot(original_image, Head(results_list)),
                         Tail(results_list))

\* A decoded frame: frame number n of the input, nothing drawn on it.
Frame(n) == [frame |-> n, boxes |-> <<>>]

\* main.py:71
RouteConfs == <<HalfConf, HalfConf, HalfConf>>

\* max_frames as callers give it: None (the default of predict_on_video), the
\* query parameter of the route (any int), its default.
MaxFramesArgs ==
    {None} \cup {Some(m) : m \in (-1 .. MaxFrames) \cup {DefaultMaxFrames}}

VideoInit ==
    /\ pc = "start"
    /\ openable \in BOOLEAN
    /\ total_frames \in 0 .. MaxFrames
    /\ models \in 0 .. MaxModels
    /\ confs_threshold = RouteConfs
    /\ max_frames \in MaxFramesArgs
    /\ cap = "none"
    /\ out = "none"
    /\ nreads = 0
    /\ frame = 0
    /\ i = 0
    /\ combined_results = <<>>
    /\ written = <<>>
    /\ processed_frames = 0
    /\ invoked = {}
    /\ dropped = {}

\* marine.py:164-170: the capture does not open; return.
OpenFails ==
    /\ pc = "start"
    /\ ~openable
    /\ cap' = "closed"
    /\ pc' = "done"
    /\ UNCHANGED serveVars
    /\ UNCHANGED <<openable, total_frames, models, confs_threshold, max_frames,
                   out, nreads, frame, i, combined_results, written,
                   processed_frames, invoked, dropped>>

\* marine.py:164-193: capture opened, writer created, counters set.
OpenVideo ==
    /\ pc = "start"
    /\ openable
    /\ cap' = "open"
    /\ out' = "open"
    /\ processed_frames' = 0
    /\ pc' = "loop"
    /\ UNCHANGED serveVars
    /\ UNCHANGED <<openable, total_frames, models, confs_threshold, max_frames,
                   nreads, frame, i, combined_results, written, invoked, dropped>>

\* marine.py:195-201: while cap.isOpened(): cap.read() delivers the next frame.
ReadFrame ==
    /\ pc = "loop"
    /\ cap = "open"
    /\ frame < total_frames
    /\ nreads' = nreads + 1
    /\ frame' = frame + 1
    /\ combined_results' = FreshResults
    /\ i' = 1
    /\ pc' = "predict"
    /\ UNCHANGED serveVars
    /\ UNCHANGED <<openable, total_frames, models, confs_threshold, max_frames,
                   cap, out, written, processed_frames, invoked, dropped>>

\* marine.py:195-199: cap.read() fails at the end of the stream; break.
ReadEnd ==
    /\ pc = "loop"
    /\ cap = "open"
    /\ frame >= total_frames
    /\ nreads' = nreads + 1
    /\ pc' = "release"
    /\ UNCHANGED serveVars
    /\ UNCHANGED <<openable, total_frames, models, confs_threshold, max_frames,
                   cap, out, frame, i, combined_results, written,
                   processed_frames, invoked, dropped>>

\* marine.py:203-206: model i runs on the frame and its results are appended.
PredictOk ==
    /\ pc = "predict"
    /\ i <= models
    /\ i <= Len(confs_threshold)
    /\ invoked' = invoked \cup {<<frame, i, confs_threshold[i]>>}
    /\ combined_results' =
           combined_results \o ModelCall(i, frame, confs_threshold[i])
    /\ i' = i + 1
    /\ UNCHANGED serveVars
    /\ UNCHANGED <<pc, openable, total_frames, models, confs_threshold,
                   max_frames, cap, out, nreads, frame, written,
                   processed_frames, dropped>>

\* marine.py:203-209: model i raises on the frame; the except branch runs.
PredictRaises ==
    /\ pc = "predict"
    /\ i <= models
    /\ i <= Len(confs_threshold)
    /\ invoked' = invoked \cup {<<frame, i, confs_threshold[i]>>}
    /\ dropped' = dropped \cup {[frame |-> frame, cause |-> "predict", model |-> i]}
    /\ pc' = AfterPredictError
    /\ UNCHANGED serveVars
    /\ UNCHANGED <<openable, total_frames, models, confs_threshold, max_frames,
                   cap, out, nreads, frame, i, combined_results, written,
                   processed_frames>>

\* marine.py:204, 207-209: confs_threshold[i] raises IndexError before the
\* model is called; the except branch runs.
PredictIndexError ==
    /\ pc = "predict"
    /\ i <= models
    /\ i > Len(confs_threshold)
    /\ dropped' = dropped \cup {[frame |-> frame, cause |-> "index", model |-> i]}
    /\ pc' = AfterPredictError
    /\ UNCHANGED serveVars
    /\ UNCHANGED <<openable, total_frames, models, confs_threshold, max_frames,
                   cap, out, nreads, frame, i, combined_results, written,
                   processed_frames, invoked>>

\* marine.py:203: enumerate(models) is exhausted.
PredictDone ==
    /\ pc = "predict"
    /\ i > models
    /\ pc' = "annotate"
    /\ UNCHANGED serveVars
    /\ UNCHANGED <<openable, total_frames, models, confs_threshold, max_frames,
                   cap, out, nreads, frame, i, combined_results, written,
                   processed_frames, invoked, dropped>>

\* marine.py:212-214: the frame is annotated and written.
AnnotateOk ==
    /\ pc = "annotate"
    /\ written' = Append(written, combine_results(Frame(frame), combined_results))
    /\ pc' = "count"
    /\ UNCHANGED serveVars
    /\ UNCHANGED <<openable, total_frames, models, confs_threshold, max_frames,
                   cap, out, nreads, frame, i, combined_results,
                   processed_frames, invoked, dropped>>

\* marine.py:212-217: combine_results or out.write raises; the except branch.
AnnotateRaises ==
    /\ pc = "annotate"
    /\ dropped' = dropped \cup {[frame |-> frame, cause |-> "annotate", model |-> 0]}
    /\ pc' = AfterAnnotateError
    /\ UNCHANGED serveVars
    /\ UNCHANGED <<openable, total_frames, models, confs_threshold, max_frames,
                   cap, out, nreads, frame, i, combined_results, written,
                   processed_frames, invoked>>

\* marine.py:219-224: count the frame, break at the limit.
CountFrame ==
    /\ pc = "count"
    /\ processed_frames' = processed_frames + 1
    /\ pc' = IF LimitReached(max_frames, processed_frames + 1)
             THEN "release" ELSE "loop"
    /\ UNCHANGED serveVars
    /\ UNCHANGED <<openable, total_frames, models, confs_threshold, max_frames,
                   cap, out, nreads, frame, i, combined_results, written,
                   invoked, dropped>>

\* marine.py:226-231
Release ==
    /\ pc = "release"
    /\ cap' = "released"
    /\ out' = "released"
    /\ pc' = "done"
    /\ UNCHANGED serveVars
    /\ UNCHANGED <<openable, total_frames, models, confs_threshold, max_frames,
                   nreads, frame, i, combined_results, written,
                   processed_frames, invoked, dropped>>


\* No request is being served.
ServeIdle ==
    /\ spc = "closed"
    /\ exists = FALSE
    /\ disk_size = 0
    /\ range_header = <<>>
    /\ status = 0
    /\ headers = <<>>
    /\ file_size = 0
    /\ range_start = 0
    /\ range_end = 0
    /\ chunk_size = 0
    /\ started = FALSE
    /\ fpos = 0
    /\ remaining = 0
    /\ chunks = <<>>
    /\ disconnected = FALSE
    /\ modified = FALSE

Init == VideoInit /\ ServeIdle
Next ==
    \/ OpenFails
    \/ OpenVideo
    \/ ReadFrame
    \/ ReadEnd
    \/ PredictOk
    \/ PredictRaises
    \/ PredictIndexError
    \/ PredictDone
    \/ AnnotateOk
    \/ AnnotateRaises
    \/ CountFrame
    \/ Release
Spec == Init /\ [][Next]_vars
\* predict_on_video is sequential code: every step that can run does run.
FairSpec == Spec /\ WF_vars(Next)

\* ====================================================================
\*                 app/main.py, GET /results/{filename}
\* ====================================================================

\* Most whole read buffers in a result file.
MaxBlocks == 2

\* main.py:150, f.read(min(4096, remaining))
ReadBuffer == 4096

\* ---- str methods and int(), on sequences of characters ----

Digits == <<"0", "1", "2", "3", "4", "5", "6", "7", "8", "9">>
IsDigit(c) == \E d \in 1 .. 10 : Digits[d] = c
DigitVal(c) == (CHOOSE d \in 1 .. 10 : Digits[d] = c) - 1
IsSpace(c) == c = " "

\* str(n) of a natural number
RECURSIVE NatStr(_)
NatStr(n) == IF n < 10 THEN <<Digits[n + 1]>>
             ELSE Append(NatStr(n \div 10), Digits[(n % 10) + 1])

\* str(n) of an int, as an f-string formats it
Str(n) == IF n < 0 THEN <<"-">> \o NatStr(0 - n) ELSE NatStr(n)

RECURSIVE LStrip(_)
LStrip(s) == IF s # <<>> /\ IsSpace(Head(s)) THEN LStrip(Tail(s)) ELSE s

RECURSIVE RStrip(_)
RStrip(s) == IF s # <<>> /\ IsSpace(s[Len(s)])
             THEN RStrip(SubSeq(s, 1, Len(s) - 1)) ELSE s

\* s.strip()
Strip(s) == RStrip(LStrip(s))

\* s.split(c): the pieces of s between the occurrences of c; one piece, s
\* itself, when c does not occur.
RECURSIVE Split(_, _)
Split(s, c) ==
    IF \A k \in 1 .. Len(s) : s[k] # c
    THEN <<s>>
    ELSE LET k == CHOOSE j \in 1 .. Len(s) :
                      s[j] = c /\ \A h \in 1 .. (j - 1) : s[h] # c
         IN  <<SubSeq(s, 1, k - 1)>> \o Split(SubSeq(s, k + 1, Len(s)), c)

\* int(s) does not raise ValueError: optional blanks around an optional sign and
\* at least one decimal digit.
IntParses(s) ==
    LET t == Strip(s)
        u == IF t # <<>> /\ Head(t) \in {"+", "-"} THEN Tail(t) ELSE t
    IN  u # <<>> /\ \A k \in 1 .. Len(u) : IsDigit(u[k])

RECURSIVE NatValue(_)
NatValue(u) == IF u = <<>> THEN 0
               ELSE 10 * NatValue(SubSeq(u, 1, Len(u) - 1)) + DigitVal(u[Len(u)])

\* int(s), for an s that parses
IntValue(s) ==
    LET t == Strip(s)
    IN  IF Head(t) = "-" THEN 0 - NatValue(Tail(t))
        ELSE IF Head(t) = "+" THEN NatValue(Tail(t))
        ELSE NatValue(t)

\* ---- the handler ----

\* main.py:137, range_header.strip().split("=")[-1]
RangeVal(h) == LET p == Split(Strip(h), "=") IN p[Len(p)]

\* main.py:138, range_val.split("-")
RangeParts(h) == Split(RangeVal(h), "-")

\* The first two pieces taken and the rest ignored, and a piece that is no
\* number read as absent.
RangeParsesLenient(h) == Len(RangeParts(h)) >= 2

\* main.py:138-140: the try block gets past the unpacking into two names and
\* the two int() calls.
RangeParses(h) ==
    /\ Len(RangeParts(h)) = 2
    /\ \A k \in 1 .. 2 : RangeParts(h)[k] # <<>> => IntParses(RangeParts(h)[k])

\* main.py:139-140, int(x) if x else default
BoundOr(x, default) == IF x # <<>> /\ IntParses(x) THEN IntValue(x) ELSE default

\* main.py:139
ParseStart(h) == BoundOr(RangeParts(h)[1], 0)

\* main.py:140-141
ParseEnd(h, size) == Min(BoundOr(RangeParts(h)[2], size - 1), size - 1)

\* main.py:160
ContentRange(start, end, size) ==
    <<"b", "y", "t", "e", "s", " ">> \o Str(start) \o <<"-">> \o Str(end)
        \o <<"/">> \o Str(size)

\* main.py:128-133
BaseHeaders(size) ==
    [h \in {"Content-Type", "Accept-Ranges", "Content-Length", "Cache-Control"} |->
        CASE h = "Content-Type" -> "video/mp4"
          [] h = "Accept-Ranges" -> "bytes"
          [] h = "Content-Length" -> Str(size)
          [] h = "Cache-Control" -> "no-cache"]

\* main.py:128-133, 160
RangeHeaders(start, end, size) ==
    [h \in {"Content-Type", "Accept-Ranges", "Content-Length", "Cache-Control",
            "Content-Range"} |->
        IF h = "Content-Range" THEN ContentRange(start, end, size)
        ELSE BaseHeaders(size)[h]]

\* main.py:189-194
FullHeaders(size) ==
    [h \in {"Content-Type", "Accept-Ranges", "Content-Length", "content-encoding"} |->
        CASE h = "Content-Type" -> "video/mp4"
          [] h = "Accept-Ranges" -> "bytes"
          [] h = "Content-Length" -> Str(size)
          [] h = "content-encoding" -> "identity"]

\* The whole buffer asked for, whatever remains of the range.
ReadSizeWholeBuffer(rem) == ReadBuffer

\* main.py:150, min(4096, remaining)
ReadSize(rem) == Min(ReadBuffer, rem)

\* f.read(n) at position pos of a file of size bytes: the number of bytes read.
FileRead(pos, n, size) ==
    IF pos >= size THEN 0 ELSE Min(n, size - pos)

\* ---- the requests ----

FileSizes ==
    {0, 1, 10} \cup {c * ReadBuffer + d : c \in 1 .. MaxBlocks, d \in {-1, 0, 1}}

\* Numbers a Range header names.
Offsets == {0, 5, ReadBuffer - 1, ReadBuffer, MaxBlocks * ReadBuffer - 1,
            MaxBlocks * ReadBuffer + 1000}

\* What stands for start or end: nothing, a number, something that is none.
Tokens == {<<>>} \cup {Str(n) : n \in Offsets}
              \cup {<<"a", "b", "c">>, <<" ">>, <<"+", "5">>}

Units == {<<"b", "y", "t", "e", "s", "=">>, <<" ", "b", "y", "t", "e", "s", "=">>,
          <<>>}

\* The empty sequence is the absent header.
RangeHeaderValues ==
    {u \o a \o sep \o b \o tail :
        u \in Units, a \in Tokens, sep \in {<<>>, <<"-">>}, b \in Tokens,
        tail \in {<<>>, <<"-", "7">>}}

VideoIdle ==
    /\ pc = "done"
    /\ openable = FALSE
    /\ total_frames = 0
    /\ models = 0
    /\ confs_threshold = RouteConfs
    /\ max_frames = None
    /\ cap = "none"
    /\ out = "none"
    /\ nreads = 0
    /\ frame = 0
    /\ i = 0
    /\ combined_results = <<>>
    /\ written = <<>>
    /\ processed_frames = 0
    /\ invoked = {}
    /\ dropped = {}

ServeInit ==
    /\ spc = "request"
    /\ exists \in BOOLEAN
    /\ disk_size \in (IF exists THEN FileSizes ELSE {0})
    /\ range_header \in RangeHeaderValues
    /\ status = 0
    /\ headers = <<>>
    /\ file_size = 0
    /\ range_start = 0
    /\ range_end = 0
    /\ chunk_size = 0
    /\ started = FALSE
    /\ fpos = 0
    /\ remaining = 0
    /\ chunks = <<>>
    /\ disconnected = FALSE
    /\ modified = FALSE

\* main.py:122-123
NotFound ==
    /\ spc = "request"
    /\ ~exists
    /\ status' = 404
    /\ spc' = "closed"
    /\ UNCHANGED videoVars
    /\ UNCHANGED <<exists, disk_size, range_header, headers, file_size,
                   range_start, range_end, chunk_size, started, fpos, remaining,
                   chunks, disconnected, modified>>

\* main.py:125-166: the Range header parses; the 206 response is built around
\* a range_stream() that has not run yet.
RangeResponse ==
    /\ spc = "request"
    /\ exists
    /\ range_header # <<>>
    /\ RangeParses(range_header)
    /\ file_size' = disk_size
    /\ range_start' = ParseStart(range_header)
    /\ range_end' = ParseEnd(range_header, disk_size)
    /\ chunk_size' = (range_end' - range_start') + 1
    /\ headers' = RangeHeaders(range_start', range_end', disk_size)
    /\ status' = 206
    /\ spc' = "ready"
    /\ UNCHANGED videoVars
    /\ UNCHANGED <<exists, disk_size, range_header, started, fpos, remaining,
                   chunks, disconnected, modified>>

\* main.py:125-138, 167-169: the try block raises; HTTPException(400).
BadRange ==
    /\ spc = "request"
    /\ exists
    /\ range_header # <<>>
    /\ ~RangeParses(range_header)
    /\ file_size' = disk_size
    /\ status' = 400
    /\ spc' = "closed"
    /\ UNCHANGED videoVars
    /\ UNCHANGED <<exists, disk_size, range_header, headers, range_start,
                   range_end, chunk_size, started, fpos, remaining, chunks,
                   disconnected, modified>>

\* main.py:125-135, 178-195: no Range header; the response of the whole file.
FullResponse ==
    /\ spc = "request"
    /\ exists
    /\ range_header = <<>>
    /\ file_size' = disk_size
    /\ headers' = FullHeaders(disk_size)
    /\ status' = 200
    /\ spc' = "ready"
    /\ UNCHANGED videoVars
    /\ UNCHANGED <<exists, disk_size, range_header, range_start, range_end,
                   chunk_size, started, fpos, remaining, chunks, disconnected,
                   modified>>

\* Where range_stream stands when it is resumed: at its first resumption
\* main.py:146-148 run first (open, seek, remaining = chunk_size).
ResumePos == IF started THEN fpos ELSE range_start
ResumeRemaining == IF started THEN remaining ELSE chunk_size

\* main.py:149-154: one more chunk is read and yielded.
RangeYield ==
    /\ status = 206
    /\ spc \in {"ready", "stream"}
    /\ ResumeRemaining > 0
    /\ LET n == FileRead(ResumePos, ReadSize(ResumeRemaining), disk_size)
       IN  /\ n > 0
           /\ chunks' = Append(chunks, <<ResumePos, n>>)
           /\ fpos' = ResumePos + n
           /\ remaining' = ResumeRemaining - n
    /\ started' = TRUE
    /\ spc' = "stream"
    /\ UNCHANGED videoVars
    /\ UNCHANGED <<exists, disk_size, range_header, status, headers, file_size,
                   range_start, range_end, chunk_size, disconnected, modified>>

\* main.py:149: remaining > 0 is false; the generator returns.
RangeFinish ==
    /\ status = 206
    /\ spc \in {"ready", "stream"}
    /\ ResumeRemaining <= 0
    /\ fpos' = ResumePos
    /\ remaining' = ResumeRemaining
    /\ started' = TRUE
    /\ spc' = "closed"
    /\ UNCHANGED videoVars
    /\ UNCHANGED <<exists, disk_size, range_header, status, headers, file_size,
                   range_start, range_end, chunk_size, chunks, disconnected,
                   modified>>

\* main.py:150-152: f.read returns b""; break.
RangeExhausted ==
    /\ status = 206
    /\ spc \in {"ready", "stream"}
    /\ ResumeRemaining > 0
    /\ FileRead(ResumePos, ReadSize(ResumeRemaining), disk_size) = 0
    /\ fpos' = ResumePos
    /\ remaining' = ResumeRemaining
    /\ started' = TRUE
    /\ spc' = "closed"
    /\ UNCHANGED videoVars
    /\ UNCHANGED <<exists, disk_size, range_header, status, headers, file_size,
                   range_start, range_end, chunk_size, chunks, disconnected,
                   modified>>

\* main.py:178-184: full_stream yields the file; the lines `yield from f` cuts
\* it into are taken together as one chunk.
FullStream ==
    /\ status = 200
    /\ spc = "ready"
    /\ chunks' = IF disk_size > 0 THEN <<<<0, disk_size>>>> ELSE <<>>
    /\ fpos' = disk_size
    /\ started' = TRUE
    /\ spc' = "closed"
    /\ UNCHANGED videoVars
    /\ UNCHANGED <<exists, disk_size, range_header, status, headers, file_size,
                   range_start, range_end, chunk_size, remaining, disconnected,
                   modified>>

\* The client goes away while range_stream is suspended at its yield
\* (main.py:154); the generator is closed.
Disconnect ==
    /\ status = 206
    /\ spc = "stream"
    /\ disconnected' = TRUE
    /\ spc' = "closed"
    /\ UNCHANGED videoVars
    /\ UNCHANGED <<exists, disk_size, range_header, status, headers, file_size,
                   range_start, range_end, chunk_size, started, fpos, remaining,
                   chunks, modified>>

\* The result file is rewritten by a concurrent POST /predict/video
\* (marine.py:190 reopens the same path) while the response is under way.
Rewritten ==
    /\ status = 206
    /\ spc \in {"ready", "stream"}
    /\ ~modified
    /\ disk_size' \in {0, ReadBuffer} \ {disk_size}
    /\ modified' = TRUE
    /\ UNCHANGED videoVars
    /\ UNCHANGED <<spc, exists, range_header, status, headers, file_size,
                   range_start, range_end, chunk_size, started, fpos, remaining,
                   chunks, disconnected>>

ServeNext ==
    \/ NotFound
    \/ RangeResponse
    \/ BadRange
    \/ FullResponse
    \/ RangeYield
    \/ RangeFinish
    \/ RangeExhausted
    \/ FullStream
    \/ Disconnect
    \/ Rewritten

ServeStart == ServeInit /\ VideoIdle
ServeSpec == ServeStart /\ [][ServeNext]_vars

\* ====================================================================
\*                 Properties of GET /results/{filename}
\* ====================================================================

\* The handler has answered a request for an existing file that carried a
\* Range header.
AnsweredRange == spc # "request" /\ exists /\ range_header # <<>>

\* The value of the header, after its last "=", is not `start-end` with each
\* of start and end empty or a number: it has no "-" or several, or a part
\* that is no number.
Unparsable(h) ==
    LET v == RangeVal(h)
        dashes == {k \in 1 .. Len(v) : v[k] = "-"}
    IN  \/ Cardinality(dashes) # 1
        \/ \E k \in dashes :
              \/ k > 1 /\ ~IntParses(SubSeq(v, 1, k - 1))
              \/ k < Len(v) /\ ~IntParses(SubSeq(v, k + 1, Len(v)))

\* Number of bytes yielded so far.
RECURSIVE Yielded(_)
Yielded(cs) == IF cs = <<>> THEN 0 ELSE Head(cs)[2] + Yielded(Tail(cs))

\* C1 (as claimed): a Range header that parses is answered 206 with
\* Content-Range: bytes start-end'/S, end' = min(end, S-1), and with
\* Content-Length = end' - start + 1. Stated for the ranges that lie in the
\* file (start <= end'), the ones the claim gives as examples.
C1_PartialContentHeaders ==
    (AnsweredRange /\ ~Unparsable(range_header)) =>
        LET start == ParseStart(range_header)
            end == ParseEnd(range_header, file_size)
        IN  start <= end =>
              /\ status = 206
              /\ headers["Content-Range"] = ContentRange(start, end, file_size)
              /\ headers["Content-Length"] = Str((end - start) + 1)

\* C2: on an unmodified file and a range with 0 <= start <= end', the chunks
\* range_stream yields are consecutive pieces of the file from offset start, of
\* 1 to 4096 bytes each, none reaching past end'; when the generator ends
\* without the client having left, they add up to chunk_size and end at end'.
C2_RangeStreamExact ==
    (/\ status = 206
     /\ ~modified
     /\ 0 <= range_start
     /\ range_start <= range_end)
    => /\ \A k \in 1 .. Len(chunks) :
            /\ chunks[k][1] = IF k = 1 THEN range_start
                              ELSE chunks[k - 1][1] + chunks[k - 1][2]
            /\ chunks[k][2] >= 1
            /\ chunks[k][2] <= ReadBuffer
            /\ (chunks[k][1] + chunks[k][2]) - 1 <= range_end
       /\ (spc = "closed" /\ ~disconnected) =>
            /\ chunk_size = (range_end - range_start) + 1
            /\ Yielded(chunks) = chunk_size
            /\ chunks[Len(chunks)][1] + chunks[Len(chunks)][2] = range_end + 1

\* A range inside the file, longer than one read buffer, streamed to its end.
C2_Witness ==
    /\ status = 206
    /\ spc = "closed"
    /\ ~modified
    /\ ~disconnected
    /\ 0 < range_start
    /\ range_end < file_size - 1
    /\ Len(chunks) >= 2

\* C7: a Range header whose start or end cannot be parsed is answered 400: no
\* 206 and no headers of one, range_stream never started, no byte sent.
C7_MalformedRangeIs400 ==
    (AnsweredRange /\ Unparsable(range_header)) =>
        /\ status = 400
        /\ spc = "closed"
        /\ headers = <<>>
        /\ ~started
        /\ chunks = <<>>

\* `bytes=abc` was answered 400.
C7_Witness ==
    /\ status = 400
    /\ spc = "closed"
    /\ range_header = <<"b", "y", "t", "e", "s", "=", "a", "b", "c">>

\* C10 (as claimed): the Content-Range of every 206 response names a non-empty
\* range inside the file, 0 <= start <= end <= S-1.
C10_SatisfiableRange ==
    status = 206 =>
        /\ headers["Content-Range"] = ContentRange(range_start, range_end, file_size)
        /\ 0 <= range_start
        /\ range_start <= range_end
        /\ range_end <= file_size - 1

\* ====================================================================
\*                 Properties of predict_on_video
\* ====================================================================

\* The capture was opened, so the frame loop was entered.
Opened == cap \in {"open", "released"}

\* The loop iteration of frame f is over.
IterationOver(f) ==
    \/ f < frame
    \/ f = frame /\ pc \in {"loop", "release", "done"}

WrittenFrames == {written[k].frame : k \in 1 .. Len(written)}
DroppedFrames == {d.frame : d \in dropped}
PredictFailures == {d \in dropped : d.cause = "predict"}

\* The loop was left by the end of the stream or by the frame limit.
LeftByEndOrLimit ==
    \/ nreads = total_frames + 1
    \/ LimitReached(max_frames, processed_frames)

\* C3 (as claimed): when detector d.model raises on a frame, the detectors after
\* it still run on that frame.
C3_RestOfEnsembleStillRuns ==
    \A d \in PredictFailures :
        IterationOver(d.frame) =>
            \A j \in (d.model + 1) .. models :
                \E c \in {HalfConf} : <<d.frame, j, c>> \in invoked

\* C3 (amended): when a detector raises on a frame, no later detector runs on
\* that frame, the frame is never written, and the frame loop goes on: it is
\* left only at the end of the stream or at the frame limit.
C3_FrameDroppedLoopGoesOn ==
    /\ \A d \in PredictFailures :
         /\ \A t \in invoked : t[1] = d.frame => t[2] <= d.model
         /\ d.frame \notin WrittenFrames
    /\ (PredictFailures # {} /\ Opened /\ pc \in {"release", "done"})
          => LeftByEndOrLimit

\* A detector that is not the last one raised on a frame, and a later frame
\* was written.
C3_Witness ==
    /\ pc = "done"
    /\ \E d \in PredictFailures :
         /\ d.model < models
         /\ \E f \in WrittenFrames : f > d.frame

\* C4: with 0 < max_frames < K and no failing frame, exactly the first
\* max_frames frames are written, in order, and cap.read() is called
\* max_frames times.
C4_LimitStopsReading ==
    (/\ pc = "done"
     /\ Opened
     /\ max_frames # None
     /\ dropped = {})
    => \A m \in {max_frames[1]} :
          (0 < m /\ m < total_frames) =>
             /\ Len(written) = m
             /\ \A k \in 1 .. m : written[k].frame = k
             /\ nreads = m

C4_Witness ==
    /\ pc = "done"
    /\ Opened
    /\ max_frames = Some(2)
    /\ total_frames = 3
    /\ models >= 1
    /\ dropped = {}
    /\ Len(written) = 2

\* The annotated frame that frame f and detectors 1..models give.
Annotated(f) ==
    [frame |-> f,
     boxes |-> [j \in 1 .. models |->
                   [frame |-> f, model |-> j, conf |-> confs_threshold[j]]]]

\* C5: without a frame limit every frame is read, the written frames are the
\* frames that did not fail, in input order, each annotated with the
\* detections of that frame and no other.
C5_FailingFramesSkipped ==
    (/\ pc = "done"
     /\ Opened
     /\ max_frames \in {None, Some(0)})
    => /\ frame = total_frames
       /\ nreads = total_frames + 1
       /\ Cardinality(dropped) = Cardinality(DroppedFrames)
       /\ Len(written) = total_frames - Cardinality(DroppedFrames)
       /\ WrittenFrames = (1 .. total_frames) \ DroppedFrames
       /\ \A k \in 1 .. Len(written) :
            /\ k > 1 => written[k - 1].frame < written[k].frame
            /\ written[k] = Annotated(written[k].frame)

\* Frame 2 of three failed, frames 1 and 3 were written with the detections
\* of two detectors.
C5_Witness ==
    /\ pc = "done"
    /\ max_frames = None
    /\ total_frames = 3
    /\ models = 2
    /\ DroppedFrames = {2}
    /\ Len(written) = 2

\* C6 (as claimed): a threshold exists for every detector index, so no frame
\* is dropped for the number of models.
C6_ThresholdForEveryDetector ==
    /\ pc = "predict" /\ i <= models => i <= Len(confs_threshold)
    /\ \A d \in dropped : d.cause # "index"

\* C8: predict_on_video terminates, and from then on neither the capture nor
\* the writer is held.
C8_TerminatesReleased ==
    <>[](pc = "done" /\ cap # "open" /\ out # "open")

\* A run that ended after a detector raised and the annotation of another
\* frame raised, with both resources released.
C8_Witness ==
    /\ pc = "done"
    /\ cap = "released"
    /\ out = "released"
    /\ \E d \in dropped : d.cause = "predict"
    /\ \E d \in dropped : d.cause = "annotate"

\* C9 (as claimed): with max_frames None, zero or negative there is no early
\* stop: every frame of the input is read and processed.
C9_NoLimitUnlessPositive ==
    (/\ pc = "done"
     /\ Opened
     /\ (max_frames = None \/ max_frames[1] <= 0))
    => frame = total_frames

====
